---------------------------- MODULE Spec2Model ----------------------------
(***************************************************************************)
(* TuneWhisperer: the transcription pipeline of the /transcribe endpoint.  *)
(*                                                                         *)
(*   - the Segmenter of the ElevenLabs adapter (_words_to_segments and its *)
(*     post-pass), as operators and as a word-by-word state machine        *)
(*     (SegSpec);                                                          *)
(*   - the translation batcher of both adapters;                           *)
(*   - the endpoint with its file-system cache, as concurrent requests     *)
(*     that interleave at the awaits of the handler (Spec, TransSpec).     *)
(*                                                                         *)
(* Conventions.  A text is a sequence of one-character strings.  Times are *)
(* integers in milliseconds (the code holds seconds as floats);            *)
(* round(x, 2) rounds to a multiple of 10 ms.  An optional value is a      *)
(* sequence of length at most one: None is << >>, Some(x) is <<x>>.        *)
(* Short strings that are only compared (provider, model, language code)   *)
(* are TLA+ strings.                                                       *)
(***************************************************************************)
EXTENDS Integers, Sequences, FiniteSets, TLC

VARIABLES
    \* ---- the endpoint (Spec, TransSpec) ----
    apiKey,      \* the environment's ELEVENLABS_API_KEY: None, or Some(key)
    outputs,     \* what a provider call can return for an audio file
    allowed,     \* the requests the clients send
    budget,      \* how many more requests the clients send
    cache,       \* the cache files: cache path -> the stored JSON document
    stamp,       \* ghost: cache path -> [n: writes so far, by: writer's request]
    req,         \* slot -> the request handled there and its local variables
    history,     \* ghost: the finished requests, in order of completion
    \* ---- the Segmenter, word by word (SegSpec) ----
    segPc,       \* "off" | "loop" | "done"
    segIn,       \* ghost: the records consumed so far
    segCur,      \* current_segment
    segOut,      \* segments
    segEv,       \* ghost: what the last iteration of the loop did
    segPre,      \* ghost: the segments before _split_very_long_segments
    segCfg,      \* the records the stream of words is drawn from
    \* ---- the /trim endpoint (TrimSpec) ----
    trimAllowed, \* the trim requests the clients send
    trimBudget,  \* how many more trim requests the clients send
    trimReq,     \* None, or Some(the request that awaits the audio trimmer)
    trimLog,     \* ghost: the finished trim requests, in order of completion
    \* ---- the /download endpoint (DownloadSpec) ----
    dlAllowed,   \* the download requests the clients send
    dlBudget,    \* how many more download requests the clients send
    dlCache,     \* video_id -> the info.json of its directory
    dlFiles,     \* the video_ids whose <video_id>.mp3 exists
    dlReq,       \* None, or Some(the request that awaits the downloader)
    dlLog        \* ghost: the finished download requests, in order

vars == <<apiKey, outputs, allowed, budget, cache, stamp, req, history,
          segPc, segIn, segCur, segOut, segEv, segPre, segCfg,
          trimAllowed, trimBudget, trimReq, trimLog,
          dlAllowed, dlBudget, dlCache, dlFiles, dlReq, dlLog>>

reqVars == <<apiKey, outputs, allowed, budget, cache, stamp, req, history>>
segVars == <<segPc, segIn, segCur, segOut, segEv, segPre, segCfg>>

trimVars == <<trimAllowed, trimBudget, trimReq, trimLog>>

dlVars == <<dlAllowed, dlBudget, dlCache, dlFiles, dlReq, dlLog>>

-----------------------------------------------------------------------------
(* Optional values and generic helpers                                     *)

None == << >>

Some(x) == <<x>>

Min(a, b) == IF a <= b THEN a ELSE b

Max(a, b) == IF a >= b THEN a ELSE b

\* n copies of the character c
Rep(c, n) == [i \in 1..n |-> c]

MinOf(S) == CHOOSE x \in S : \A y \in S : x <= y

MaxOf(S) == CHOOSE x \in S : \A y \in S : x >= y

\* the elements of a finite set of integers in increasing order
SortSet(S) ==
    [k \in 1..Cardinality(S) |-> CHOOSE m \in S : Cardinality({x \in S : x < m}) = k - 1]

RECURSIVE Flatten(_)
\* the concatenation of a sequence of sequences
Flatten(parts) ==
    IF parts = << >> THEN << >> ELSE Head(parts) \o Flatten(Tail(parts))

-----------------------------------------------------------------------------
(* Python string operations on texts.  The operators that walk a text are  *)
(* written over its index set, not by recursion on its characters: a       *)
(* segment that the post-pass splits is longer than 160 characters.        *)

Whitespace == {" ", "\t", "\n"}

PrimaryPunct == {".", "!", "?"}

SentenceEndChars == {".", "?", "!"}

SecondaryPunct == {",", ";", ":"}

\* the indices of the characters of s that are not whitespace
Inked(s) == {i \in 1..Len(s) : s[i] \notin Whitespace}

\* str.lstrip()
LStrip(s) == IF Inked(s) = {} THEN << >> ELSE SubSeq(s, MinOf(Inked(s)), Len(s))

\* str.strip()
Strip(s) == IF Inked(s) = {} THEN << >> ELSE SubSeq(s, MinOf(Inked(s)), MaxOf(Inked(s)))

\* str.endswith(('.', '?', '!'))
EndsWithAny(s, chars) == s # << >> /\ s[Len(s)] \in chars

\* str.split(): the maximal runs of characters that are not whitespace
SplitWs(s) ==
    LET starts == SortSet({i \in Inked(s) : i = 1 \/ s[i - 1] \in Whitespace})
        ends   == SortSet({i \in Inked(s) : i = Len(s) \/ s[i + 1] \in Whitespace})
    IN  [k \in 1..Len(starts) |-> SubSeq(s, starts[k], ends[k])]

RECURSIVE JoinSp(_)
\* " ".join(parts)
JoinSp(parts) ==
    IF parts = << >> THEN << >>
    ELSE IF Len(parts) = 1 THEN parts[1]
    ELSE parts[1] \o <<" ">> \o JoinSp(Tail(parts))

\* s cut after each index of the set cuts (each below Len(s)): the pieces, in
\* order, whose concatenation is s
CutAfter(s, cuts) ==
    LET c == SortSet(cuts)
    IN  [k \in 1..(Len(c) + 1) |->
            SubSeq(s, IF k = 1 THEN 1 ELSE c[k - 1] + 1,
                      IF k = Len(c) + 1 THEN Len(s) ELSE c[k])]

\* re.split by a pattern whose matches start at the indices of marks, the
\* mark itself dropped: the text between one mark and the next.  The
\* whitespace that the pattern takes after a mark is left at the head of the
\* next piece; every caller strips the pieces.
SplitAtMarks(s, marks) ==
    LET m == SortSet(marks)
    IN  [k \in 1..(Len(m) + 1) |->
            SubSeq(s, IF k = 1 THEN 1 ELSE m[k - 1] + 1,
                      IF k = Len(m) + 1 THEN Len(s) ELSE m[k] - 1)]

-----------------------------------------------------------------------------
(* The Segmenter: ElevenLabsService._words_to_segments                     *)

segment_max_duration == 8000

segment_max_words == 25

segment_max_chars == 120

min_sentence_words == 4

max_text_length == 160

max_segment_length == 60

\* current_segment["start"] / ["end"] before the first word: None in the code
NoTime == -1

EmptySegment == [start |-> NoTime, end |-> NoTime, text |-> << >>, words |-> << >>]

\* is_sentence_end(word_text)
is_sentence_end(word_text) == EndsWithAny(Strip(word_text), SentenceEndChars)

\* a variant of ShouldSplit whose punctuation rule does not count the words
ShouldSplitAnyLength(cur, word_text) ==
    IF is_sentence_end(word_text) THEN TRUE
    ELSE IF Len(cur.words) >= segment_max_words THEN TRUE
    ELSE IF Len(cur.text) >= segment_max_chars THEN TRUE
    ELSE IF cur.end - cur.start > segment_max_duration THEN TRUE
    ELSE FALSE

\* a variant of ShouldSplit whose maximum of words is reached one word later
ShouldSplitOneMore(cur, word_text) ==
    IF is_sentence_end(word_text) /\ Len(cur.words) >= min_sentence_words THEN TRUE
    ELSE IF Len(cur.words) > segment_max_words THEN TRUE
    ELSE IF Len(cur.text) >= segment_max_chars THEN TRUE
    ELSE IF cur.end - cur.start > segment_max_duration THEN TRUE
    ELSE FALSE

\* the value of should_split after the if / elif chain, for the accumulator
\* cur that already holds the appended word
ShouldSplit(cur, word_text) ==
    IF is_sentence_end(word_text) /\ Len(cur.words) >= min_sentence_words THEN TRUE
    ELSE IF Len(cur.words) >= segment_max_words THEN TRUE
    ELSE IF Len(cur.text) >= segment_max_chars THEN TRUE
    ELSE IF cur.end - cur.start > segment_max_duration THEN TRUE
    ELSE FALSE

\* a variant of AppendWord that puts no space before the word
AppendWordGlued(cur, word) ==
    [start |-> cur.start,
     end   |-> word.end,
     text  |-> cur.text \o word.text,
     words |-> Append(cur.words, word)]

\* the accumulator after "Adicionar palavra ao segmento atual"
AppendWord(cur, word) ==
    [start |-> cur.start,
     end   |-> word.end,
     text  |-> cur.text \o <<" ">> \o word.text,
     words |-> Append(cur.words, word)]

\* a variant of FirstWord that puts a space before the word
FirstWordSpaced(word) ==
    [start |-> word.start, end |-> word.end, text |-> <<" ">> \o word.text,
     words |-> <<word>>]

\* the accumulator after "Inicializar primeiro segmento"
FirstWord(word) ==
    [start |-> word.start, end |-> word.end, text |-> word.text, words |-> <<word>>]

\* the dictionary appended to segments when the accumulator is closed
EmitSegment(cur) == [start |-> cur.start, end |-> cur.end, text |-> Strip(cur.text)]

\* a variant of SegStep that closes the segment before the word that makes
\* should_split true and starts the next segment with that word
SegStepBefore(st, word) ==
    IF word.type # "word" THEN st
    ELSE IF st.cur.words = << >> THEN [cur |-> FirstWord(word), segments |-> st.segments]
    ELSE LET c == AppendWord(st.cur, word)
         IN  IF ShouldSplit(c, word.text)
             THEN [cur |-> FirstWord(word),
                   segments |-> Append(st.segments, EmitSegment(st.cur))]
             ELSE [cur |-> c, segments |-> st.segments]

\* a variant of SegStep that takes every record for a spoken word
SegStepEveryRecord(st, word) ==
    IF st.cur.words = << >> THEN [cur |-> FirstWord(word), segments |-> st.segments]
    ELSE LET c == AppendWord(st.cur, word)
         IN  IF ShouldSplit(c, word.text)
             THEN [cur |-> EmptySegment, segments |-> Append(st.segments, EmitSegment(c))]
             ELSE [cur |-> c, segments |-> st.segments]

\* one iteration of "for word in words": st = [cur, segments]
SegStep(st, word) ==
    IF word.type # "word" THEN st
    ELSE IF st.cur.words = << >> THEN [cur |-> FirstWord(word), segments |-> st.segments]
    ELSE LET c == AppendWord(st.cur, word)
         IN  IF ShouldSplit(c, word.text)
             THEN [cur |-> EmptySegment, segments |-> Append(st.segments, EmitSegment(c))]
             ELSE [cur |-> c, segments |-> st.segments]

RECURSIVE SegLoop(_, _)
\* the whole for loop
SegLoop(st, words) ==
    IF words = << >> THEN st ELSE SegLoop(SegStep(st, Head(words)), Tail(words))

\* "Adicionar ultimo segmento se houver"
SegFlush(st) ==
    IF st.cur.words # << >> THEN Append(st.segments, EmitSegment(st.cur)) ELSE st.segments

-----------------------------------------------------------------------------
(* The post-pass: _split_very_long_segments                                *)

\* the indices where r'([.!?])([^\s])' can match: a mark followed by a
\* character that is not whitespace
SubCandidates(s) ==
    {i \in 1..(Len(s) - 1) : s[i] \in PrimaryPunct /\ s[i + 1] \notin Whitespace}

\* the matches of re.sub do not overlap: in a run of candidates i, i+1, ...
\* the character matched as group 2 is not tried as the mark of a next
\* match, so every second candidate of a run matches
SubMatches(s) ==
    LET C == SubCandidates(s)
        RunStart(i) == MinOf({j \in 1..i : \A k \in j..i : k \in C})
    IN  {i \in C : (i - RunStart(i)) % 2 = 0}

\* re.sub(r'([.!?])([^\s])', r'\1 \2', text): a space after each matched mark
SpaceAfterPunct(s) == JoinSp(CutAfter(s, SubMatches(s)))

\* re.split(r'[.!?]\s+', text)
SplitPunctWs(s) ==
    SplitAtMarks(s, {i \in 1..(Len(s) - 1) : s[i] \in PrimaryPunct /\ s[i + 1] \in Whitespace})

\* [s.strip() for s in segments if s.strip()]
StripNonEmpty(parts) ==
    LET stripped == [i \in DOMAIN parts |-> Strip(parts[i])]
    IN  SelectSeq(stripped, LAMBDA x : x # << >>)

\* _split_by_punctuation
SplitByPunctuation(text) == StripNonEmpty(SplitPunctWs(SpaceAfterPunct(text)))

\* re.split(r'[,;:]\s*', text)
SplitSecondary(s) == SplitAtMarks(s, {i \in 1..Len(s) : s[i] \in SecondaryPunct})

RECURSIVE WrapWords(_, _, _)
\* the greedy wrap of one long piece: cur is current_segment, n is
\* current_length
WrapWords(words, cur, n) ==
    IF words = << >> THEN (IF cur # << >> THEN <<JoinSp(cur)>> ELSE << >>)
    ELSE LET w == Head(words)
         IN  IF n + Len(w) + 1 > max_segment_length /\ cur # << >>
             THEN <<JoinSp(cur)>> \o WrapWords(Tail(words), <<w>>, Len(w))
             ELSE WrapWords(Tail(words), Append(cur, w), n + Len(w) + 1)

\* what one piece of the secondary split adds to result
SecondaryPiece(piece) ==
    LET seg == Strip(piece)
    IN  IF seg = << >> THEN << >>
        ELSE IF Len(seg) > max_segment_length THEN WrapWords(SplitWs(seg), << >>, 0)
        ELSE <<seg>>

\* _split_by_secondary_punctuation
SplitBySecondaryPunctuation(text) ==
    LET parts == SplitSecondary(text)
    IN  Flatten([k \in DOMAIN parts |-> SecondaryPiece(parts[k])])

\* n / d rounded to the nearest integer (n >= 0, d > 0).  A tie is rounded
\* to even, as Python's round does for a value that the float holds exactly;
\* for one it does not hold exactly the code rounds the tie up or down.
RoundDiv(n, d) ==
    LET q == n \div d
        r == n % d
    IN  IF 2 * r < d THEN q
        ELSE IF 2 * r > d THEN q + 1
        ELSE IF q % 2 = 0 THEN q ELSE q + 1

\* round(num / den, 2) for a time of num / den milliseconds
Round2(num, den) == 10 * RoundDiv(num, 10 * den)

RECURSIVE Distribute(_, _, _, _)
\* the loop "for sentence in sentences" that divides the time of a segment
\* in proportion to the characters: cur is current_time * total_chars
Distribute(sentences, cur, total_chars, segment_duration) ==
    IF sentences = << >> THEN << >>
    ELSE LET sentence == Strip(Head(sentences))
             end_time == cur + Len(sentence) * segment_duration
         IN  IF sentence = << >>
             THEN Distribute(Tail(sentences), cur, total_chars, segment_duration)
             ELSE <<[start |-> Round2(cur, total_chars),
                     end   |-> Round2(end_time, total_chars),
                     text  |-> sentence]>>
                  \o Distribute(Tail(sentences), end_time, total_chars, segment_duration)

\* what one segment becomes in refined_segments
SplitOneSegment(segment) ==
    LET text == segment.text
        primary == SplitByPunctuation(text)
        secondary == SplitBySecondaryPunctuation(text)
    IN  IF Len(text) <= max_text_length THEN <<segment>>
        ELSE IF Len(primary) > 1
             THEN Distribute(primary, segment.start * Len(text), Len(text),
                             segment.end - segment.start)
        ELSE IF Len(secondary) > 1
             THEN Distribute(secondary, segment.start * Len(text), Len(text),
                             segment.end - segment.start)
        ELSE <<segment>>

RECURSIVE SplitVeryLongSegments(_)
\* _split_very_long_segments
SplitVeryLongSegments(segments) ==
    IF segments = << >> THEN << >>
    ELSE SplitOneSegment(Head(segments)) \o SplitVeryLongSegments(Tail(segments))

\* _words_to_segments
WordsToSegments(words) ==
    IF words = << >> THEN << >>
    ELSE SplitVeryLongSegments(
             SegFlush(SegLoop([cur |-> EmptySegment, segments |-> << >>], words)))

-----------------------------------------------------------------------------
(* Strings of the endpoint                                                 *)

\* str.lower(), for the strings of the model that hold an upper-case letter
Lower(x) ==
    CASE x = "PT" -> "pt"
      [] x = "EN" -> "en"
      [] x = ".MP3" -> ".mp3"
      [] OTHER -> x

\* the pieces of a string between its underscores
UnderscoreSplit(x) ==
    CASE x = "scribe_v1" -> <<"scribe", "v1">>
      [] x = "scribe_v1_experimental" -> <<"scribe", "v1", "experimental">>
      [] OTHER -> <<x>>

\* the truth value Python gives an optional string
Truthy(opt) == opt # None /\ opt[1] # ""

\* dict.get(key): None for a key the dictionary does not hold
Get(d, key) == IF key \in DOMAIN d THEN Some(d[key]) ELSE None

\* d[key] = value
SetKey(d, key, value) == [k \in DOMAIN d \cup {key} |-> IF k = key THEN value ELSE d[k]]

-----------------------------------------------------------------------------
(* Paths and the file system.  A path is a sequence of components; a       *)
(* component is a name, held as its pieces between underscores, and an     *)
(* extension.                                                              *)

Comp(name, ext) == [name |-> name, ext |-> ext]

\* the working directory of the server
Cwd == <<Comp(<<"srv">>, "")>>

\* the directory of the audio files, and the files that exist
AudioDir == Cwd \o <<Comp(<<"downloads">>, "")>>

FsFiles ==
    { AudioDir \o <<Comp(<<"a">>, ".mp3")>>,
      AudioDir \o <<Comp(<<"b">>, ".MP3")>>,
      AudioDir \o <<Comp(<<"notes">>, ".txt")>> }

\* a path as a request gives it: relative to the working directory or not
Rel(parts) == [abs |-> FALSE, parts |-> parts]

Abs(parts) == [abs |-> TRUE, parts |-> parts]

\* _get_absolute_path: os.path.abspath
GetAbsolutePath(p) == IF p.abs THEN p ELSE Abs(Cwd \o p.parts)

\* os.path.exists, for an absolute path: a file, or a directory above one
PathExists(fs, cachefiles, p) ==
    \/ p \in DOMAIN cachefiles
    \/ \E f \in fs : Len(p.parts) <= Len(f) /\ SubSeq(f, 1, Len(p.parts)) = p.parts

\* os.path.dirname
DirName(p) == Abs(SubSeq(p.parts, 1, Len(p.parts) - 1))

\* os.path.splitext(path)[1]
SplitExt(p) == IF p.parts = << >> THEN "" ELSE p.parts[Len(p.parts)].ext

valid_extensions == {".mp3", ".wav", ".m4a", ".flac", ".ogg"}

valid_providers == {"whisper", "elevenlabs"}

valid_whisper_models == {"tiny", "base", "small", "medium", "large"}

valid_elevenlabs_models == {"scribe_v1", "scribe_v1_experimental"}

\* request.provider or "whisper"
ProviderOf(r) == IF Truthy(r.provider) THEN r.provider[1] ELSE "whisper"

\* request.model or the provider's default
ModelOf(r) ==
    IF Truthy(r.model) THEN r.model[1]
    ELSE IF ProviderOf(r) = "whisper" THEN "base" ELSE "scribe_v1"

\* the HTTP error of the validation of a request, 0 when it passes
ValidationError(r, cachefiles) ==
    LET path == GetAbsolutePath(r.file_path)
    IN  IF ~PathExists(FsFiles, cachefiles, path) THEN 404
        ELSE IF Lower(SplitExt(path)) \notin valid_extensions THEN 400
        ELSE IF ProviderOf(r) \notin valid_providers THEN 400
        ELSE IF ProviderOf(r) = "whisper" /\ ModelOf(r) \notin valid_whisper_models THEN 400
        ELSE IF ProviderOf(r) # "whisper" /\ ModelOf(r) \notin valid_elevenlabs_models THEN 400
        ELSE 0

not_found_detail == "Arquivo de áudio não encontrado"

format_detail == "Formato de arquivo não suportado"

\* the detail of the HTTPException of the validation, "" when it passes
ValidationDetail(r, cachefiles) ==
    LET path == GetAbsolutePath(r.file_path)
    IN  IF ~PathExists(FsFiles, cachefiles, path) THEN not_found_detail
        ELSE IF Lower(SplitExt(path)) \notin valid_extensions THEN format_detail
        ELSE IF ProviderOf(r) \notin valid_providers
        THEN "Provedor deve ser 'whisper' ou 'elevenlabs'"
        ELSE IF ProviderOf(r) = "whisper" /\ ModelOf(r) \notin valid_whisper_models
        THEN "Modelo inválido para Whisper"
        ELSE IF ProviderOf(r) # "whisper" /\ ModelOf(r) \notin valid_elevenlabs_models
        THEN "Modelo inválido para ElevenLabs"
        ELSE ""

\* the details of the other errors of the handler.  What "except Exception"
\* catches is answered with "Erro na transcrição: " and the exception's text.
api_key_detail == "API key da ElevenLabs não configurada"

no_result_detail == "Erro na transcrição do áudio"

missing_key_detail == "Erro na transcrição: ELEVENLABS_API_KEY não foi configurada"

elevenlabs_detail == "Erro na transcrição: Erro na transcrição ElevenLabs"

cache_detail == "Erro na transcrição: cache"

-----------------------------------------------------------------------------
(* The cache of the endpoint                                               *)

\* cache_name: "transcription_{provider}_{model}", then "_{translate_to}" for
\* a translate_to that is not empty, as the pieces between its underscores
CacheName(provider, model, translate_to) ==
    <<"transcription">> \o UnderscoreSplit(provider) \o UnderscoreSplit(model)
        \o (IF Truthy(translate_to) THEN UnderscoreSplit(translate_to[1]) ELSE << >>)

\* _get_transcription_cache_path
GetTranscriptionCachePath(file_path, provider, model, translate_to) ==
    Abs(DirName(file_path).parts \o <<Comp(CacheName(provider, model, translate_to), ".json")>>)

\* _load_transcription_cache: the stored document, None without a file
LoadTranscriptionCache(c, cache_path) ==
    IF cache_path \in DOMAIN c THEN Some(c[cache_path]) ELSE None

\* a variant of SaveTranscriptionCache that keeps the fields of the document
\* that is already in the file
SaveMerged(c, cache_path, transcription) ==
    IF cache_path \in DOMAIN c
    THEN (cache_path :> (c[cache_path] @@ transcription)) @@ c
    ELSE (cache_path :> transcription) @@ c

\* a variant of SaveTranscriptionCache that leaves a file that is already
\* there as it is
SaveIfAbsent(c, cache_path, transcription) ==
    IF cache_path \in DOMAIN c THEN c ELSE (cache_path :> transcription) @@ c

\* _save_transcription_cache: open(cache_path, 'w') and json.dump
SaveTranscriptionCache(c, cache_path, transcription) ==
    (cache_path :> transcription) @@ c

\* the content of a cache file that is not JSON: json.load raises
Unreadable == [unreadable |-> TRUE]

\* the content of a cache file that is a JSON object without the fields of
\* a transcription
Malformed == [note |-> "x"]

\* _load_transcription_cache raises: the file is there and json.load fails
LoadRaises(c, cache_path) ==
    cache_path \in DOMAIN c /\ "unreadable" \in DOMAIN c[cache_path]

\* building the response from a cached document raises KeyError:
\* cached_result["language"]
ResponseRaises(d) == "language" \notin DOMAIN d

\* ghost: what a request finds in the cache file of its key
Found(c, cache_path) ==
    IF cache_path \notin DOMAIN c THEN "nothing"
    ELSE IF "unreadable" \in DOMAIN c[cache_path] THEN "unreadable"
    ELSE IF "language" \notin DOMAIN c[cache_path] THEN "malformed"
    ELSE "transcription"

\* a variant of CacheHit that takes no document for a hit
CacheHitNever(cached_result) == FALSE

\* "if cached_result:" a document that was loaded and is not empty
CacheHit(cached_result) == cached_result # None /\ DOMAIN cached_result[1] # {}

\* TranscriptionSegment(start=..., end=..., text=..., translated_text=segment.get(...))
ResponseSegment(segment) ==
    [start |-> segment.start, end |-> segment.end, text |-> segment.text,
     translated_text |-> Get(segment, "translated_text")]

\* the TranscribeResponse built from a result dictionary d
Response(d, provider, cached) ==
    [language |-> d.language,
     language_probability |-> Get(d, "language_probability"),
     translated_to |-> Get(d, "translated_to"),
     segments |-> [i \in DOMAIN d.segments |-> ResponseSegment(d.segments[i])],
     file_duration |-> IF "file_duration" \in DOMAIN d THEN d.file_duration ELSE 0,
     provider |-> IF "provider" \in DOMAIN d THEN d.provider ELSE provider,
     cached |-> cached]

-----------------------------------------------------------------------------
(* The provider adapters                                                   *)

placeholder_api_key == "your_elevenlabs_api_key_here"

\* a variant of IsApiKeyValid that takes every key that is set
AnyKeySet(key) == Truthy(key)

\* ElevenLabsService.__init__ raises ValueError for "not self.api_key"
ApiKeyMissing(key) == ~Truthy(key)

\* is_api_key_valid
IsApiKeyValid(key) == Truthy(key) /\ key[1] # placeholder_api_key

lang_mapping ==
    [k \in {"eng", "por", "spa", "fra", "deu", "ita", "jpn", "kor", "zho", "rus",
            "ara", "hin"} |->
        CASE k = "eng" -> "en" [] k = "por" -> "pt" [] k = "spa" -> "es"
          [] k = "fra" -> "fr" [] k = "deu" -> "de" [] k = "ita" -> "it"
          [] k = "jpn" -> "ja" [] k = "kor" -> "ko" [] k = "zho" -> "zh"
          [] k = "rus" -> "ru" [] k = "ara" -> "ar" [] k = "hin" -> "hi"]

\* _normalize_language_code: the keys of lang_mapping are the only strings it
\* maps, and all of them have three characters
NormalizeLanguageCode(language_code) ==
    IF Lower(language_code) \in DOMAIN lang_mapping
    THEN lang_mapping[Lower(language_code)]
    ELSE Lower(language_code)

RECURSIVE MaxEnd(_, _)
\* the loop of _calculate_file_duration
MaxEnd(words, max_end) ==
    IF words = << >> THEN max_end
    ELSE MaxEnd(Tail(words), IF Head(words).end > max_end THEN Head(words).end ELSE max_end)

\* _calculate_file_duration
CalculateFileDuration(words) == IF words = << >> THEN 0 ELSE MaxEnd(words, 0)

\* _convert_to_standard_format, for the JSON document o of the ElevenLabs API
ConvertToStandardFormat(o) ==
    [language |-> NormalizeLanguageCode(o.language_code),
     language_probability |-> o.language_probability,
     segments |-> WordsToSegments(o.words),
     file_duration |-> CalculateFileDuration(o.words),
     text |-> o.text,
     provider |-> "elevenlabs"]

\* _transcribe_with_whisper, for the segments and the info o of the model
TranscribeWithWhisper(o) ==
    LET processed == [i \in DOMAIN o.wsegments |->
                         [start |-> Round2(o.wsegments[i].start, 1),
                          end   |-> Round2(o.wsegments[i].end, 1),
                          text  |-> Strip(o.wsegments[i].text)]]
    IN  [language |-> o.language,
         language_probability |-> o.language_probability,
         segments |-> processed,
         file_duration |-> IF processed = << >> THEN 0 ELSE processed[Len(processed)].end,
         text |-> JoinSp([i \in DOMAIN processed |-> processed[i].text]),
         provider |-> "whisper"]

-----------------------------------------------------------------------------
(* Translation                                                             *)

batch_size == 10

supported_languages ==
    {"pt", "en", "es", "fr", "de", "it", "ja", "ko", "zh", "ru",
     "ar", "hi", "th", "vi", "tr", "pl", "nl", "sv", "no", "da",
     "fi", "cs", "sk", "hu", "ro", "bg", "hr", "sl", "et", "lv",
     "lt", "mt", "ga", "cy", "eu", "ca", "gl", "is", "mk", "sq",
     "sr", "bs", "me", "uz", "kk", "ky", "tg", "mn", "my", "km",
     "lo", "ka", "am", "ne", "si", "bn", "gu", "ta", "te", "kn",
     "ml", "ur", "fa", "ps", "sw", "zu", "af", "be"}

\* _is_valid_language_code (the same in both services)
\* a variant of IsValidLanguageCode that takes every code
AnyLanguageCode(language_code) == TRUE

IsValidLanguageCode(language_code) == Lower(language_code) \in supported_languages

\* translator.translate(text) of a translator built for target: the text the
\* translation service answers, which is not the text it was given
Translate(target, text) == <<"[", target, "]">> \o text

\* what the service does with a result before the first batch:
\*   "skip"    the result is returned as it is, no translator is built
\*   "build"   a translator is built for target
\* WhisperService.transcribe_audio and _translate_segments
WhisperPlan(result, translate_to) ==
    IF ~Truthy(translate_to) THEN [do |-> "skip", target |-> ""]
    ELSE IF ~IsValidLanguageCode(translate_to[1]) THEN [do |-> "skip", target |-> ""]
    ELSE IF result.language = translate_to[1] THEN [do |-> "skip", target |-> ""]
    ELSE [do |-> "build", target |-> translate_to[1]]

\* ElevenLabsService.transcribe_audio and _translate_segments
ElevenLabsPlan(result, translate_to) ==
    IF ~(Truthy(translate_to) /\ IsValidLanguageCode(translate_to[1]))
    THEN [do |-> "skip", target |-> ""]
    ELSE IF ~IsValidLanguageCode(translate_to[1]) THEN [do |-> "skip", target |-> ""]
    ELSE [do |-> "build", target |-> Lower(translate_to[1])]

TranslationPlan(provider, result, translate_to) ==
    IF provider = "whisper" THEN WhisperPlan(result, translate_to)
    ELSE ElevenLabsPlan(result, translate_to)

\* whether _translate_segments goes on to _translate_segments_batch once the
\* translator is built: ElevenLabs only "if segments:"
EntersBatches(provider, segments) == provider = "whisper" \/ segments # << >>

\* a variant of WhisperTranslateOne without the fallback of the except branch
WhisperTranslateOneBlank(segment, target, raised) ==
    LET text == Strip(segment.text)
    IN  SetKey(segment, "translated_text",
               IF text # << >> /\ ~raised THEN Translate(target, text) ELSE << >>)

\* WhisperService._translate_batch_sync on one segment; raised says whether
\* translator.translate raises for it
WhisperTranslateOne(segment, target, raised) ==
    LET text == Strip(segment.text)
    IN  IF text # << >>
        THEN SetKey(segment, "translated_text",
                    IF raised THEN text ELSE Translate(target, text))
        ELSE SetKey(segment, "translated_text", text)

\* ElevenLabsService._translate_batch_sync on one segment
ElevenLabsTranslateOne(segment, target, raised) ==
    LET original_text == Strip(segment.text)
    IN  IF original_text # << >>
        THEN SetKey(segment, "translated_text",
                    IF raised THEN segment.text ELSE Translate(target, original_text))
        ELSE SetKey(segment, "translated_text", original_text)

\* a variant of TranslateBatchSync that returns only the segments whose
\* translation did not raise
TranslateBatchDropFailed(provider, batch, target, raises) ==
    LET kept == SelectSeq([i \in DOMAIN batch |-> [segment |-> batch[i], raised |-> raises[i]]],
                          LAMBDA x : ~x.raised)
    IN  [i \in DOMAIN kept |->
            IF provider = "whisper" THEN WhisperTranslateOne(kept[i].segment, target, FALSE)
            ELSE ElevenLabsTranslateOne(kept[i].segment, target, FALSE)]

\* _translate_batch_sync: the batch with translated_text set on every
\* segment; raises[i] says whether the translator raises for segment i
TranslateBatchSync(provider, batch, target, raises) ==
    [i \in DOMAIN batch |->
        IF provider = "whisper" THEN WhisperTranslateOne(batch[i], target, raises[i])
        ELSE ElevenLabsTranslateOne(batch[i], target, raises[i])]

\* segments[i:i + batch_size], for the 0-based index i
Batch(segments, i) == SubSeq(segments, i + 1, Min(i + batch_size, Len(segments)))

\* a variant of InPlace that puts the results one index further
InPlaceShifted(segments, i, done) ==
    [k \in DOMAIN segments |->
        IF k > i + 1 /\ k <= i + 1 + Len(done) THEN done[k - i - 1] ELSE segments[k]]

\* the list segments after the dictionaries of the batch at i were changed in
\* place into those of done
InPlace(segments, i, done) ==
    [k \in DOMAIN segments |->
        IF k > i /\ k <= i + Len(done) THEN done[k - i] ELSE segments[k]]

\* the result after _translate_segments has stored the segments
\* ElevenLabs stores target_language.lower(), Whisper target_language
Translated(result, segments, target) ==
    SetKey(SetKey(result, "segments", segments), "translated_to", target)

-----------------------------------------------------------------------------
(* The endpoint POST /transcribe.  A request is handled in a slot; the     *)
(* handler runs without interruption from one await to the next: from its  *)
(* start to the provider call, from the provider's answer to the first     *)
(* translation batch, from one batch to the next, and from the last batch  *)
(* over the cache write to the response.  force_language is only handed to *)
(* the provider, whose answer the model leaves open, and is not modelled.  *)

\* the requests handled at the same time
NumSlots == 2

Slots == 1..NumSlots

\* the requests the clients send in a run
MaxRequests == 2

IdleReq ==
    [pc |-> "idle", r |-> << >>, path |-> << >>, provider |-> "", model |-> "",
     result |-> << >>, segments |-> << >>, translated |-> << >>, i |-> 0,
     target |-> "", base |-> << >>, raised |-> << >>, batchFailed |-> FALSE,
     built |-> FALSE, converted |-> FALSE, cacheReads |-> 0, providerCalls |-> 0, translateCalls |-> 0,
     w0 |-> 0, after |-> 0, found |-> "", detail |-> "", output |-> << >>]

\* ghost: the number of writes of a cache file so far
Writes(st, key) == IF key \in DOMAIN st THEN st[key].n ELSE 0

\* ghost: the entry of history for the request q that ends with the HTTP
\* status code and the response resp, whose content the request origin
\* computed, the cache and its stamps being c2 and st2 from then on
Entry(q, code, key, resp, origin, c2, st2) ==
    [r |-> q.r, provider |-> q.provider, model |-> q.model, key |-> key,
     code |-> code, resp |-> resp, origin |-> origin,
     base |-> q.base, raised |-> q.raised, batchFailed |-> q.batchFailed,
     built |-> q.built, converted |-> q.converted, target |-> q.target,
     cacheReads |-> q.cacheReads,
     providerCalls |-> q.providerCalls, translateCalls |-> q.translateCalls,
     w0 |-> q.w0, w1 |-> IF key = None THEN 0 ELSE Writes(st2, key[1]),
     after |-> q.after, found |-> q.found, detail |-> q.detail,
     wrote |-> st2 # stamp, output |-> q.output,
     stored |-> IF key = None THEN None ELSE LoadTranscriptionCache(c2, key[1])]

\* the request in slot s ends: the handler returns or raises HTTPException
Reply(s, q, code, key, resp, origin, c2, st2) ==
    /\ cache' = c2
    /\ stamp' = st2
    /\ history' = Append(history, Entry(q, code, key, resp, origin, c2, st2))
    /\ req' = [req EXCEPT ![s] = IdleReq]

\* the request q with the detail of the error it ends with
Detail(q, detail) == [q EXCEPT !.detail = detail]

\* a variant of Fail that saves an empty document under the key
FailSaving(s, q, code, key) ==
    IF key = None THEN Reply(s, q, code, key, None, None, cache, stamp)
    ELSE Reply(s, q, code, key, None, None,
               SaveTranscriptionCache(cache, key[1], << >>),
               (key[1] :> [n |-> Writes(stamp, key[1]) + 1, by |-> q.r]) @@ stamp)

\* the handler raises HTTPException(code) and leaves the cache as it is
Fail(s, q, code, key) == Reply(s, q, code, key, None, None, cache, stamp)

\* the end of the handler for the result of the service: "Salvar no cache"
\* and the response with cached=False
Succeed(s, q, result) ==
    LET key == GetTranscriptionCachePath(q.path, q.provider, q.model, q.r.translate_to)
        c2  == SaveTranscriptionCache(cache, key, result)
        st2 == (key :> [n |-> Writes(stamp, key) + 1, by |-> q.r]) @@ stamp
    IN  Reply(s, q, 200, Some(key), Some(Response(result, q.provider, FALSE)),
              Some(q.r), c2, st2)

\* the number of calls of translator.translate for a batch
TranslateCalls(batch) == Cardinality({i \in DOMAIN batch : Strip(batch[i].text) # << >>})

\* a client sends request r and the handler runs up to its first await:
\* validation, the cache, the choice of the service and its construction.
\* loaded says whether WhisperService._load_model gets its model.
Receive(s, r) ==
    /\ req[s].pc = "idle"
    /\ budget > 0
    /\ budget' = budget - 1
    /\ UNCHANGED <<apiKey, outputs, allowed, segVars, trimVars, dlVars>>
    /\ \E loaded \in BOOLEAN :
        LET path     == GetAbsolutePath(r.file_path)
            provider == ProviderOf(r)
            model    == ModelOf(r)
            err      == ValidationError(r, cache)
            key      == GetTranscriptionCachePath(path, provider, model, r.translate_to)
            cached   == IF LoadRaises(cache, key) THEN None
                        ELSE LoadTranscriptionCache(cache, key)
            q0 == [IdleReq EXCEPT !.r = r, !.after = Len(history)]
            q1 == [q0 EXCEPT !.path = path, !.provider = provider, !.model = model,
                             !.w0 = Writes(stamp, key), !.found = Found(cache, key),
                             !.cacheReads = IF r.use_cache THEN 1 ELSE 0]
            q2 == [q1 EXCEPT !.providerCalls = 1]
        IN  IF err # 0 THEN Fail(s, Detail(q0, ValidationDetail(r, cache)), err, None)
            ELSE IF r.use_cache /\ LoadRaises(cache, key)
            THEN Fail(s, Detail(q1, cache_detail), 500, Some(key))
            ELSE IF r.use_cache /\ CacheHit(cached) /\ ResponseRaises(cached[1])
            THEN Fail(s, Detail(q1, cache_detail), 500, Some(key))
            ELSE IF r.use_cache /\ CacheHit(cached)
            THEN Reply(s, q1, 200, Some(key), Some(Response(cached[1], provider, TRUE)),
                       Some(stamp[key].by), cache, stamp)
            ELSE IF provider = "elevenlabs" /\ ApiKeyMissing(apiKey)
            THEN Fail(s, Detail(q1, missing_key_detail), 500, Some(key))
            ELSE IF provider = "elevenlabs" /\ ~IsApiKeyValid(apiKey)
            THEN Fail(s, Detail(q1, api_key_detail), 400, Some(key))
            ELSE IF provider = "whisper" /\ ~loaded
            THEN Fail(s, Detail(q2, no_result_detail), 500, Some(key))
            ELSE /\ req' = [req EXCEPT ![s] = [q2 EXCEPT !.pc = "provider"]]
                 /\ UNCHANGED <<cache, stamp, history>>

\* the provider call of slot s returns and the service runs up to its next
\* await or to the end of the handler.  ok: the call succeeded with the
\* output o; ctor: GoogleTranslator(...) could be built.
ProviderReturn(s) ==
    /\ req[s].pc = "provider"
    /\ UNCHANGED <<apiKey, outputs, allowed, budget, segVars, trimVars, dlVars>>
    /\ \E ok \in BOOLEAN, o \in outputs, ctor \in BOOLEAN :
        LET q      == req[s]
            key    == GetTranscriptionCachePath(q.path, q.provider, q.model, q.r.translate_to)
            result == IF q.provider = "whisper" THEN TranscribeWithWhisper(o)
                      ELSE ConvertToStandardFormat(o)
            plan   == TranslationPlan(q.provider, result, q.r.translate_to)
            qb     == [q EXCEPT !.base = result.segments, !.converted = TRUE,
                                !.output = o]
            qt     == [qb EXCEPT !.built = TRUE, !.target = plan.target]
        IN  IF ~ok
            THEN Fail(s, Detail(q, IF q.provider = "whisper" THEN no_result_detail
                                   ELSE elevenlabs_detail), 500, Some(key))
            ELSE IF plan.do = "skip" \/ ~ctor THEN Succeed(s, qb, result)
            ELSE IF ~EntersBatches(q.provider, result.segments) THEN Succeed(s, qt, result)
            ELSE IF result.segments = << >>
            THEN Succeed(s, qt, Translated(result, << >>, plan.target))
            ELSE /\ req' = [req EXCEPT ![s] =
                        [qt EXCEPT !.pc = "translate", !.result = result,
                                   !.segments = result.segments,
                                   !.translated = << >>, !.i = 0]]
                 /\ UNCHANGED <<cache, stamp, history>>

\* the batch in flight of slot s returns.  failed: run_in_executor raised,
\* and _translate_segments_batch returns the list segments as it is by then;
\* raises[k]: the translator raises for segment k of the batch.
BatchReturn(s) ==
    /\ req[s].pc = "translate"
    /\ UNCHANGED <<apiKey, outputs, allowed, budget, segVars, trimVars, dlVars>>
    /\ \E failed \in BOOLEAN :
       \E raises \in [1..Len(Batch(req[s].segments, req[s].i)) -> BOOLEAN] :
        LET q     == req[s]
            batch == Batch(q.segments, q.i)
            done  == TranslateBatchSync(q.provider, batch, q.target, raises)
            qf    == [q EXCEPT !.batchFailed = TRUE]
            qd    == [q EXCEPT !.segments = InPlace(q.segments, q.i, done),
                               !.translated = q.translated \o done,
                               !.i = q.i + batch_size,
                               !.raised = q.raised \o raises,
                               !.translateCalls = q.translateCalls + TranslateCalls(batch)]
        IN  IF failed THEN Succeed(s, qf, Translated(q.result, q.segments, q.target))
            ELSE IF qd.i >= Len(q.segments)
            THEN Succeed(s, qd, Translated(q.result, qd.translated, q.target))
            ELSE /\ req' = [req EXCEPT ![s] = qd]
                 /\ UNCHANGED <<cache, stamp, history>>

Receives == \E s \in Slots, r \in allowed : Receive(s, r)

ProviderReturns == \E s \in Slots : ProviderReturn(s)

BatchReturns == \E s \in Slots : BatchReturn(s)

Next == Receives \/ ProviderReturns \/ BatchReturns

\* the values of the Segmenter's variables while the endpoint runs
DlOff ==
    /\ dlAllowed = {}
    /\ dlBudget = 0
    /\ dlCache = << >>
    /\ dlFiles = {}
    /\ dlReq = << >>
    /\ dlLog = << >>

TrimOff ==
    /\ trimAllowed = {}
    /\ trimBudget = 0
    /\ trimReq = << >>
    /\ trimLog = << >>

SegOff ==
    /\ segPc = "off"
    /\ segIn = << >>
    /\ segCur = << >>
    /\ segOut = << >>
    /\ segEv = << >>
    /\ segPre = << >>
    /\ segCfg = << >>

-----------------------------------------------------------------------------
(* The inputs of the endpoint                                              *)

\* the length of a spoken word, in ms
WordLen == 500

Hello == <<"H", "e", "l", "l", "o">>

world == <<"w", "o", "r", "l", "d">>

W(text, start, end) == [type |-> "word", text |-> text, start |-> start, end |-> end]

Sp(at) == [type |-> "spacing", text |-> <<" ">>, start |-> at, end |-> at]

\* an English recording: two words
OutHello ==
    [language_code |-> "eng", language |-> "en", language_probability |-> 95,
     text |-> Hello \o <<" ">> \o world,
     words |-> <<W(Hello, 0, 500), Sp(500), W(world, 500, 1000)>>,
     wsegments |-> <<[start |-> 0, end |-> 1004, text |-> <<" ">> \o Hello \o <<" ">> \o world]>>]

\* a Portuguese recording: one word
OutOi ==
    [language_code |-> "por", language |-> "pt", language_probability |-> 80,
     text |-> <<"O", "i">>,
     words |-> <<W(<<"O", "i">>, 200, 700)>>,
     wsegments |-> <<[start |-> 196, end |-> 700, text |-> <<" ", "O", "i">>]>>]

FileA == Rel(<<Comp(<<"downloads">>, ""), Comp(<<"a">>, ".mp3")>>)

FileB == Abs(AudioDir \o <<Comp(<<"b">>, ".MP3")>>)

FileNotes == Abs(AudioDir \o <<Comp(<<"notes">>, ".txt")>>)

FileMissing == Rel(<<Comp(<<"downloads">>, ""), Comp(<<"gone">>, ".mp3")>>)

\* a file that is not there, with an extension that is not supported
FileMissingTxt == Rel(<<Comp(<<"downloads">>, ""), Comp(<<"gone">>, ".txt")>>)

\* file_path = ""
FileEmpty == Rel(<< >>)

Request(file_path, provider, model, translate_to, use_cache) ==
    [file_path |-> file_path, provider |-> provider, model |-> model,
     translate_to |-> translate_to, use_cache |-> use_cache]

\* the requests of Spec: two audio files of one directory, each with the
\* default service, with or without a target language, and with the two
\* models of ElevenLabs, cached or not; and the requests that the validation
\* rejects
SpecRequests ==
    { Request(f, t[1], t[2], t[3], u) :
        f \in {FileA, FileB},
        t \in {<<None, None, None>>,
               <<Some("elevenlabs"), Some("scribe_v1"), Some("experimental")>>,
               <<Some("elevenlabs"), Some("scribe_v1_experimental"), None>>},
        u \in BOOLEAN }
    \cup { Request(FileA, Some("whisper"), Some("base"), Some("pt"), u) : u \in BOOLEAN }
    \cup { Request(FileMissing, None, None, None, TRUE),
           Request(FileMissingTxt, Some("azure"), Some("base"), Some("xx"), TRUE),
           Request(FileEmpty, None, None, None, TRUE),
           Request(FileNotes, None, None, None, TRUE),
           Request(FileA, Some("azure"), None, None, TRUE),
           Request(FileA, Some("whisper"), Some("scribe_v1"), None, TRUE) }

ApiKeys == {None, Some(placeholder_api_key), Some("sk_live")}

\* the request of an earlier run of the server, and the cache file it left
SeedRequest == Request(FileA, None, None, None, TRUE)

SeedKey == GetTranscriptionCachePath(GetAbsolutePath(FileA), "whisper", "base", None)

\* the cache files when the server starts: none, or the one of SeedRequest
NoRequests ==
    /\ req = [s \in Slots |-> IdleReq]
    /\ history = << >>

ColdStart ==
    /\ cache = << >>
    /\ stamp = << >>
    /\ NoRequests

WarmStart ==
    /\ cache = (SeedKey :> TranscribeWithWhisper(OutOi))
    /\ stamp = (SeedKey :> [n |-> 1, by |-> SeedRequest])
    /\ NoRequests

\* a cache file of the key of SeedRequest that holds no transcription
CorruptStart ==
    /\ \E d \in {Unreadable, Malformed} : cache = (SeedKey :> d)
    /\ stamp = (SeedKey :> [n |-> 1, by |-> SeedRequest])
    /\ NoRequests

Init ==
    /\ SegOff
    /\ TrimOff
    /\ DlOff
    /\ (ColdStart \/ WarmStart \/ CorruptStart)
    /\ apiKey \in ApiKeys
    /\ outputs = {OutHello, OutOi}
    /\ allowed = SpecRequests
    /\ budget = MaxRequests

Spec == Init /\ [][Next]_vars

\* the number of segments of the long recording: more than one batch
TransSegs == 11

\* the length of a piece of the long recording and the silence inside it
PieceLen == 10000

PieceGap == 9000

\* a long English recording of n pieces.  ElevenLabs gives two words for a
\* piece, the second after a silence that closes the segment; Whisper gives
\* one segment for a piece, the third of them blank.
OutLong(n) ==
    [language_code |-> "eng", language |-> "en", language_probability |-> 90,
     text |-> << >>,
     words |-> Flatten([k \in 1..n |->
                  <<W(<<"a">>, (k - 1) * PieceLen, (k - 1) * PieceLen + WordLen),
                    W(<<"b", ".">>, (k - 1) * PieceLen + PieceGap,
                                    (k - 1) * PieceLen + PieceGap + WordLen)>>]),
     wsegments |-> [k \in 1..n |->
                  [start |-> (k - 1) * PieceLen + 4, end |-> k * PieceLen - 4,
                   text |-> IF k = 3 THEN <<" ">> ELSE <<" ", "s", ".">>]]]

\* a recording without speech
OutSilence ==
    [language_code |-> "eng", language |-> "en", language_probability |-> 10,
     text |-> << >>, words |-> << >>, wsegments |-> << >>]

\* a short recording.  ElevenLabs ends its records with a spacing record;
\* the last segment of Whisper ends before the first one does.
OutBack ==
    [language_code |-> "eng", language |-> "en", language_probability |-> 70,
     text |-> <<"a", " ", "b">>,
     words |-> <<W(<<"a">>, 0, WordLen), W(<<"b">>, WordLen, 2 * WordLen),
                 Sp(2 * WordLen + 200)>>,
     wsegments |-> <<[start |-> 0, end |-> 6 * WordLen, text |-> <<" ", "a">>],
                     [start |-> 2 * WordLen, end |-> 4 * WordLen, text |-> <<" ", "b">>]>>]

\* the requests of TransSpec: both services, with every kind of target
TransRequests ==
    { Request(FileA, pm[1], pm[2], t, TRUE) :
        pm \in {<<Some("whisper"), Some("base")>>,
                <<Some("elevenlabs"), Some("scribe_v1")>>},
        t \in {None, Some(""), Some("pt"), Some("PT"), Some("en"), Some("xx")} }

\* one request over long recordings: the translation batcher at work
TransInit ==
    /\ SegOff
    /\ TrimOff
    /\ DlOff
    /\ ColdStart
    /\ apiKey = Some("sk_live")
    /\ outputs = {OutLong(TransSegs), OutSilence, OutBack}
    /\ allowed = TransRequests
    /\ budget = 1

TransSpec == TransInit /\ [][Next]_vars

-----------------------------------------------------------------------------
(* The Segmenter as a state machine: one step per record of the provider's *)
(* word list, then the end of the stream with the post-pass.               *)

\* the longest word stream
MaxWords == 5

\* the texts of the spoken words of the streams
WordTexts == {Hello, world, <<"o", "k", ".">>, <<"e", "h", "?">>}

\* the silence before a word, in ms
WordGaps == {0, 9000}

\* the end of the last record consumed (0.0 at the start of the audio)
LastEnd(in) == IF in = << >> THEN 0 ELSE in[Len(in)].end

\* the start of the last record consumed
LastStart(in) == IF in = << >> THEN 0 ELSE in[Len(in)].start

\* the records that can follow the stream in: a spoken word after a
\* silence, a spacing record, or the tag of an audio event; after the first
\* segCfg.vary records the stream goes on with the one word segCfg.tail
NextRecords(in) ==
    IF Len(in) >= segCfg.vary
    THEN { [type |-> "word", text |-> segCfg.tail, start |-> LastEnd(in),
            end |-> LastEnd(in) + segCfg.len] }
    ELSE
    { [type |-> "word", text |-> t, start |-> LastEnd(in) + g,
       end |-> LastEnd(in) + g + segCfg.len] :
          t \in segCfg.texts, g \in {x \in segCfg.gaps : LastEnd(in) + x >= LastStart(in)} }
    \cup { [type |-> "spacing", text |-> <<" ">>, start |-> LastEnd(in),
            end |-> LastEnd(in)] }
    \cup { [type |-> "audio_event", text |-> <<"(", "x", ")">>, start |-> LastEnd(in),
            end |-> LastEnd(in)] }

NoEvent == [kind |-> "none", n |-> 0, chars |-> 0, dur |-> 0, before |-> 0,
            fired |-> FALSE]

\* ghost: what the iteration for record w does to the accumulator cur
SegEvent(cur, out, w, ev) ==
    IF w.type # "word"
    THEN [kind |-> "skip", n |-> Len(cur.words), chars |-> Len(cur.text),
          dur |-> 0, before |-> Len(out), fired |-> ev.fired]
    ELSE IF cur.words = << >>
    THEN [kind |-> "first", n |-> 1, chars |-> Len(w.text),
          dur |-> w.end - w.start, before |-> Len(out), fired |-> ev.fired]
    ELSE LET c == AppendWord(cur, w)
         IN  [kind |-> "append", n |-> Len(c.words), chars |-> Len(c.text),
              dur |-> c.end - c.start, before |-> Len(out),
              fired |-> ev.fired \/ ShouldSplit(c, w.text)]

\* the values of the endpoint's variables while only the Segmenter runs
ReqOff ==
    /\ apiKey = None
    /\ outputs = {}
    /\ allowed = {}
    /\ budget = 0
    /\ cache = << >>
    /\ stamp = << >>
    /\ req = [s \in Slots |-> IdleReq]
    /\ history = << >>

SegInit ==
    /\ ReqOff
    /\ TrimOff
    /\ DlOff
    /\ segPc = "loop"
    /\ segIn = << >>
    /\ segCur = EmptySegment
    /\ segOut = << >>
    /\ segEv = NoEvent
    /\ segPre = << >>
    /\ segCfg = [texts |-> WordTexts, gaps |-> WordGaps, max |-> MaxWords,
                 len |-> WordLen, vary |-> MaxWords, tail |-> << >>]

\* one iteration of the loop of _words_to_segments, for the next record
SegWord ==
    /\ segPc = "loop"
    /\ Len(segIn) < segCfg.max
    /\ \E w \in NextRecords(segIn) :
          LET st == SegStep([cur |-> segCur, segments |-> segOut], w)
          IN  /\ segIn' = Append(segIn, w)
              /\ segCur' = st.cur
              /\ segOut' = st.segments
              /\ segEv' = SegEvent(segCur, segOut, w, segEv)
    /\ segPc' = "loop"
    /\ UNCHANGED <<segPre, segCfg>>
    /\ UNCHANGED <<reqVars, trimVars, dlVars>>

\* the end of the stream: the last segment and the post-pass
SegEnd ==
    /\ segPc = "loop"
    /\ segPre' = IF segIn = << >> THEN << >>
                 ELSE SegFlush([cur |-> segCur, segments |-> segOut])
    /\ segOut' = SplitVeryLongSegments(segPre')
    /\ segPc' = "done"
    /\ UNCHANGED <<segIn, segCur, segEv, segCfg>>
    /\ UNCHANGED <<reqVars, trimVars, dlVars>>

SegNext == SegWord \/ SegEnd

SegSpec == SegInit /\ [][SegNext]_vars

\* the length of a long word, over max_text_length with what precedes it
LongLen == 160

\* a long word that ends with the characters tail
LongWord(tail) == Rep("x", LongLen) \o tail

\* the texts of the streams with long words
LongTexts == {LongWord(<<".">>), LongWord(<<",">>), <<"b">>, <<"c", ".">>}

\* how far a word may start before the end of the word before it, in ms:
\* its start is not before the start of that word
Overlap == 250

\* a silence between two words that is shorter than segment_max_duration
LongGap == 5000

LongGaps == {0 - Overlap, 0, LongGap}

\* the words of a stream with long words
MaxLongWords == 3

\* streams with long words, which _split_very_long_segments splits
LongInit ==
    /\ ReqOff
    /\ TrimOff
    /\ DlOff
    /\ segPc = "loop"
    /\ segIn = << >>
    /\ segCur = EmptySegment
    /\ segOut = << >>
    /\ segEv = NoEvent
    /\ segPre = << >>
    /\ segCfg = [texts |-> LongTexts, gaps |-> LongGaps, max |-> MaxLongWords,
                 len |-> WordLen, vary |-> MaxLongWords, tail |-> << >>]

LongSpec == LongInit /\ [][SegNext]_vars

\* the spoken records of a stream
Spoken(in) == SelectSeq(in, LAMBDA w : w.type = "word")

\* the Segmenter's result is the function WordsToSegments of its input
SegRunsFunction == segPc = "done" => segOut = WordsToSegments(segIn)

-----------------------------------------------------------------------------
(* The cache of the endpoint, under Spec                                   *)

\* entry j of history belongs to a request that came in after the request of
\* entry i had ended
After(i, j) == i < j /\ history[j].after >= i

\* the response of a finished request that succeeded
Resp(h) == h.resp[1]

\* the request whose result a response carries
Origin(h) == h.origin[1]

\* C1: after a request with use_cache=true has succeeded, a second request
\* with the same file path, provider, model and target language, the cache
\* record not being written in between, succeeds with cached=true and the
\* segments of the first response, and does not call the provider.
SecondRequestIsCached ==
    \A i, j \in DOMAIN history :
        (/\ After(i, j)
         /\ history[i].code = 200
         /\ history[i].r.use_cache
         /\ history[j].r = history[i].r
         /\ history[j].w0 = history[i].w1)
        => /\ history[j].code = 200
           /\ Resp(history[j]).cached
           /\ Resp(history[j]).segments = Resp(history[i]).segments
           /\ history[j].providerCalls = 0

\* a first request was computed by the provider and the same request, sent
\* again, was answered from the cache
SecondRequestSeen ==
    \E i, j \in DOMAIN history :
        /\ After(i, j)
        /\ history[i].code = 200
        /\ history[i].r.use_cache
        /\ ~Resp(history[i]).cached
        /\ history[i].providerCalls = 1
        /\ Resp(history[i]).segments # << >>
        /\ history[j].r = history[i].r
        /\ history[j].w0 = history[i].w1
        /\ Resp(history[j]).cached

\* C2: a request never gets cached=true with a result that was computed from
\* another source file than its own.
CacheKeyedBySourceFile ==
    \A j \in DOMAIN history :
        (history[j].code = 200 /\ Resp(history[j]).cached)
        => GetAbsolutePath(Origin(history[j]).file_path)
               = GetAbsolutePath(history[j].r.file_path)

\* the (provider, model, target language or none) tuple of a request
Tuple(r) ==
    <<ProviderOf(r), ModelOf(r), IF Truthy(r.translate_to) THEN r.translate_to ELSE None>>

\* C3: for one source file, a request never gets cached=true with a result
\* that was stored for another (provider, model, target language) tuple.
CacheKeyedByTuple ==
    \A j \in DOMAIN history :
        (/\ history[j].code = 200
         /\ Resp(history[j]).cached
         /\ GetAbsolutePath(Origin(history[j]).file_path)
               = GetAbsolutePath(history[j].r.file_path))
        => Tuple(Origin(history[j])) = Tuple(history[j].r)

\* C4: a request with use_cache=false does not read the cache; when it
\* succeeds it has called the provider, answers cached=false and leaves in
\* the file of its key exactly the document of its response; a later
\* use_cache=true request with that key, the file not being written in
\* between, answers that response with cached=true.
RecomputeOverwrites ==
    \A j \in DOMAIN history :
        ~history[j].r.use_cache =>
            /\ history[j].cacheReads = 0
            /\ history[j].code = 200 =>
                /\ ~Resp(history[j]).cached
                /\ history[j].providerCalls = 1
                /\ history[j].stored # None
                /\ Response(history[j].stored[1], history[j].provider, FALSE)
                       = Resp(history[j])
                /\ \A k \in DOMAIN history :
                      (/\ After(j, k)
                       /\ history[k].r.use_cache
                       /\ history[k].key = history[j].key
                       /\ history[k].w0 = history[j].w1)
                      => /\ history[k].code = 200
                         /\ Resp(history[k]).cached
                         /\ [Resp(history[k]) EXCEPT !.cached = FALSE] = Resp(history[j])

\* a use_cache=false request wrote over the record of an earlier run, which
\* held another language, and a later use_cache=true request got its result
RecomputeSeen ==
    \E j, k \in DOMAIN history :
        /\ After(j, k)
        /\ ~history[j].r.use_cache
        /\ history[j].code = 200
        /\ history[j].w0 = 1
        /\ history[j].w1 = 2
        /\ Resp(history[j]).language = "en"
        /\ Resp(history[j]).segments # << >>
        /\ history[k].r.use_cache
        /\ history[k].key = history[j].key
        /\ history[k].w0 = 2
        /\ Resp(history[k]).cached
        /\ Resp(history[k]).segments = Resp(history[j]).segments

-----------------------------------------------------------------------------
(* The translation batcher, under TransSpec                                *)

\* start, end and text of a segment
Core(segment) == [start |-> segment.start, end |-> segment.end, text |-> segment.text]

\* the translated_text of segment i of a response
TranslatedText(h, i) == Resp(h).segments[i].translated_text

\* C5: whichever segments or batches fail, the segments of the response of a
\* computed transcription are as many as the segments the provider's answer
\* was converted to, with the same start, end and text at every index, and
\* so are the segments left in the cache file.
TranslationKeepsSegments ==
    \A j \in DOMAIN history :
        history[j].converted =>
            /\ Len(Resp(history[j]).segments) = Len(history[j].base)
            /\ \A i \in DOMAIN history[j].base :
                  Core(Resp(history[j]).segments[i]) = Core(history[j].base[i])
            /\ Len(history[j].stored[1].segments) = Len(history[j].base)
            /\ \A i \in DOMAIN history[j].base :
                  Core(history[j].stored[1].segments[i]) = Core(history[j].base[i])

\* two batches were translated, some segments failed and others did not,
\* and for another request a batch failed as a whole
TranslationSeen ==
    \E j \in DOMAIN history :
        /\ history[j].converted
        /\ Len(history[j].base) > batch_size
        /\ \/ /\ Len(history[j].raised) = Len(history[j].base)
              /\ \E i, k \in DOMAIN history[j].raised :
                    history[j].raised[i] /\ ~history[j].raised[k]
           \/ /\ history[j].batchFailed
              /\ Len(history[j].raised) = batch_size

\* C6: once the provider has answered, the request succeeds whatever the
\* translator does; a segment for which the translator raised has its
\* original text as translated_text, and every other segment with text that
\* a batch reached has the translation of its text, in the batch of the
\* failure and in the batches after it.
TranslationErrorIsolated ==
    \A j \in DOMAIN history :
        history[j].converted =>
            /\ history[j].code = 200
            /\ (history[j].raised # << >> /\ ~history[j].batchFailed)
                   => Len(history[j].raised) = Len(history[j].base)
            /\ \A i \in DOMAIN history[j].raised :
                  IF history[j].raised[i] \/ Strip(history[j].base[i].text) = << >>
                  THEN TranslatedText(history[j], i) = Some(history[j].base[i].text)
                  ELSE TranslatedText(history[j], i)
                          = Some(Translate(history[j].target, Strip(history[j].base[i].text)))

\* the translator raised for the second segment of the first batch only,
\* and the segments after it and the segment of the second batch were
\* translated
TranslationErrorSeen ==
    \E j \in DOMAIN history :
        /\ history[j].code = 200
        /\ Len(history[j].base) > batch_size
        /\ Len(history[j].raised) = Len(history[j].base)
        /\ \A i \in DOMAIN history[j].raised : history[j].raised[i] <=> i = 2
        /\ TranslatedText(history[j], 2) = Some(history[j].base[2].text)
        /\ TranslatedText(history[j], 4) # Some(history[j].base[4].text)
        /\ TranslatedText(history[j], batch_size + 1)
              = Some(Translate(history[j].target, Strip(history[j].base[batch_size + 1].text)))

\* the response of entry h carries no translation
Untranslated(h) ==
    /\ ~h.built
    /\ h.translateCalls = 0
    /\ Resp(h).translated_to = None
    /\ Resp(h).segments = [i \in DOMAIN h.base |-> ResponseSegment(h.base[i])]
    /\ \A i \in DOMAIN h.base : TranslatedText(h, i) = None

\* C7: when translate_to is the detected language of the transcription, no
\* translation is attempted, the segments have no translated_text and
\* translated_to is unset.
SameLanguageUntranslated ==
    \A j \in DOMAIN history :
        (/\ history[j].converted
         /\ Truthy(history[j].r.translate_to)
         /\ history[j].r.translate_to[1] = Resp(history[j]).language)
        => Untranslated(history[j])

\* C8: when translate_to is not a supported language, the translator is
\* neither built nor called, the request succeeds with the segments of the
\* transcription as they were and translated_to unset.
UnsupportedTargetUntranslated ==
    \A j \in DOMAIN history :
        (/\ history[j].converted
         /\ Truthy(history[j].r.translate_to)
         /\ Lower(history[j].r.translate_to[1]) \notin supported_languages)
        => /\ history[j].code = 200
           /\ Untranslated(history[j])

\* ElevenLabs has answered a request for the language "xx" over the long
\* recording
UnsupportedTargetSeen ==
    \E j \in DOMAIN history :
        /\ history[j].provider = "elevenlabs"
        /\ history[j].r.translate_to = Some("xx")
        /\ history[j].code = 200
        /\ Len(Resp(history[j]).segments) > batch_size

-----------------------------------------------------------------------------
(* The Segmenter, under SegSpec                                            *)

\* the texts of the spoken records of a stream
SpokenTexts(in) == [i \in DOMAIN Spoken(in) |-> Spoken(in)[i].text]

LastRecord == segIn[Len(segIn)]

\* the last iteration appended a word that ends a sentence
SentenceEndAppended ==
    /\ segPc = "loop"
    /\ segEv.kind = "append"
    /\ is_sentence_end(LastRecord.text)

\* C10: when the appended word ends a sentence and the accumulator with it
\* holds min_sentence_words words or more, the segment is closed at once and
\* that word is its last word; with fewer words, and no maximum of words,
\* characters or duration reached, the segment stays open with the word in it.
PunctuationClosesSegment ==
    SentenceEndAppended =>
        IF segEv.n >= min_sentence_words
        THEN /\ segCur = EmptySegment
             /\ Len(segOut) = segEv.before + 1
             /\ segOut[Len(segOut)].end = LastRecord.end
             /\ EndsWithAny(segOut[Len(segOut)].text, SentenceEndChars)
        ELSE (/\ segEv.n < segment_max_words
              /\ segEv.chars < segment_max_chars
              /\ segEv.dur <= segment_max_duration)
             => /\ Len(segOut) = segEv.before
                /\ segCur.words # << >>
                /\ segCur.words[Len(segCur.words)] = LastRecord
                /\ segCur.end = LastRecord.end

\* a sentence of four words was closed by its last word, far from every
\* maximum, after a sentence of three words had stayed open
PunctuationSeen ==
    /\ SentenceEndAppended
    /\ segEv.n = min_sentence_words
    /\ segEv.chars < segment_max_chars
    /\ segEv.dur <= segment_max_duration
    /\ is_sentence_end(segIn[Len(segIn) - 1].text)
    /\ segCur = EmptySegment
    /\ Len(segOut) = 1

-----------------------------------------------------------------------------
(* The Segmenter and its post-pass, under LongSpec                         *)

\* the words of a stream have non-decreasing starts and start <= end
WellTimed(words) ==
    /\ \A i \in DOMAIN words : words[i].start <= words[i].end
    /\ \A i \in DOMAIN words : i > 1 => words[i - 1].start <= words[i].start

\* C11: for words with non-decreasing starts and start <= end, every
\* segment of the result, post-pass included, has start <= end and the
\* starts of the segments do not decrease along the list.
SegmentsTimeOrdered ==
    (segPc = "done" /\ WellTimed(Spoken(segIn)))
    => /\ \A i \in DOMAIN segOut : segOut[i].start <= segOut[i].end
       /\ \A i \in DOMAIN segOut : i > 1 => segOut[i - 1].start <= segOut[i].start

\* the step of round(x, 2), in ms
RoundingStep == 10

RECURSIVE SumDurations(_)
\* the sum of end - start over a list of segments
SumDurations(segments) ==
    IF segments = << >> THEN 0
    ELSE Head(segments).end - Head(segments).start + SumDurations(Tail(segments))

\* whether a and b differ by no more than the rounding step
Near(a, b) == a - b <= RoundingStep /\ b - a <= RoundingStep

\* C12: when the post-pass splits a segment into pieces, the durations of
\* the pieces sum to the duration of the segment, the first piece starts at
\* its start and the last piece ends at its end, up to the rounding step.
PiecesKeepDuration ==
    segPc = "done" =>
        \A k \in DOMAIN segPre :
            LET parent == segPre[k]
                pieces == SplitOneSegment(parent)
            IN  Len(pieces) > 1 =>
                    /\ Near(SumDurations(pieces), parent.end - parent.start)
                    /\ Near(pieces[1].start, parent.start)
                    /\ Near(pieces[Len(pieces)].end, parent.end)

-----------------------------------------------------------------------------
(* Errors of the endpoint, under Spec                                      *)

\* the request of entry h passed the validation of the endpoint
Validated(h) == h.key # None

\* C13: a use_cache=true request that finds an unreadable or malformed
\* record under its key calls the provider and, when the provider answers,
\* succeeds with cached=false and leaves the fresh result in the record.
CorruptRecordIsMiss ==
    \A j \in DOMAIN history :
        (/\ Validated(history[j])
         /\ history[j].r.use_cache
         /\ history[j].found \in {"unreadable", "malformed"}
         /\ IsApiKeyValid(apiKey) \/ history[j].provider = "whisper")
        => /\ history[j].providerCalls = 1
           /\ history[j].converted =>
                 /\ history[j].code = 200
                 /\ ~Resp(history[j]).cached
                 /\ Response(history[j].stored[1], history[j].provider, FALSE)
                        = Resp(history[j])

\* the details that say that the credential is not configured
NotConfiguredDetails == {api_key_detail, missing_key_detail}

\* the request of entry h was for ElevenLabs and missed the cache
ElevenLabsMiss(h) ==
    /\ Validated(h)
    /\ h.provider = "elevenlabs"
    /\ ~h.r.use_cache \/ h.found = "nothing"

\* C14: with the credential absent or equal to the placeholder, a request
\* for ElevenLabs that misses the cache ends with an error whose detail says
\* that the key is not configured (status 500 from the constructor's
\* ValueError when absent, status 400 for the placeholder), before any call
\* of the provider and without a write of the cache file.
UnconfiguredFailsFast ==
    \A j \in DOMAIN history :
        (/\ ElevenLabsMiss(history[j])
         /\ apiKey \in {None, Some(placeholder_api_key)})
        => /\ history[j].code \in {400, 500}
           /\ history[j].detail \in NotConfiguredDetails
           /\ history[j].providerCalls = 0
           /\ history[j].w1 = history[j].w0
           /\ history[j].resp = None

\* a request for ElevenLabs was refused for the placeholder key, with no
\* file under its key before or after
UnconfiguredSeen ==
    \E j \in DOMAIN history :
        /\ ElevenLabsMiss(history[j])
        /\ apiKey = Some(placeholder_api_key)
        /\ history[j].code = 400
        /\ history[j].detail = api_key_detail
        /\ history[j].stored = None

\* the provider was called for the request of entry h and the call failed
ProviderFailed(h) == Validated(h) /\ h.providerCalls >= 1 /\ ~h.converted

\* C15: when the provider call of a request fails, the request ends with
\* an error and no response, the provider was called once, and the request
\* has not written the cache file of its key.
ProviderFailureSurfaces ==
    \A j \in DOMAIN history :
        /\ history[j].providerCalls <= 1
        /\ ProviderFailed(history[j]) =>
              /\ history[j].code = 500
              /\ history[j].resp = None
              /\ history[j].detail \in {no_result_detail, elevenlabs_detail}
              /\ ~history[j].wrote

\* the provider failed for a use_cache=false request of Whisper and the
\* record of an earlier run is still under its key
ProviderFailureSeen ==
    \E j \in DOMAIN history :
        /\ ProviderFailed(history[j])
        /\ history[j].provider = "whisper"
        /\ ~history[j].r.use_cache
        /\ history[j].found = "transcription"
        /\ history[j].code = 500
        /\ history[j].stored = Some(TranscribeWithWhisper(OutOi))

\* the absolute path p names a file that is there: an audio file or a
\* cache file
IsFile(p) == p.parts \in FsFiles \/ p \in DOMAIN cache

\* C16: a request whose file_path is empty or names no file that is there
\* ends with 404 "Arquivo de áudio não encontrado", whatever its other
\* fields, without a read or write of the cache and without a provider
\* call; the 400 of the format is only for a file that is there.
MissingFileIsNotFound ==
    \A j \in DOMAIN history :
        /\ ~IsFile(GetAbsolutePath(history[j].r.file_path)) =>
              /\ history[j].code = 404
              /\ history[j].detail = not_found_detail
              /\ history[j].cacheReads = 0
              /\ history[j].providerCalls = 0
              /\ ~history[j].wrote
        /\ (history[j].code = 400 /\ history[j].detail = format_detail) =>
              /\ IsFile(GetAbsolutePath(history[j].r.file_path))
              /\ Lower(SplitExt(GetAbsolutePath(history[j].r.file_path)))
                     \notin valid_extensions

-----------------------------------------------------------------------------
(* The texts and the times of the segments, under SegSpec                  *)

\* the texts of a list of words
Texts(words) == [i \in DOMAIN words |-> words[i].text]

\* the last n spoken words of a stream
LastSpoken(in, n) == SubSeq(Spoken(in), Len(Spoken(in)) - n + 1, Len(Spoken(in)))

\* the last iteration of the loop closed a segment
SegmentClosed ==
    segPc = "loop" /\ segEv.kind = "append" /\ Len(segOut) = segEv.before + 1

AppendedAfterSilence ==
    /\ segPc = "loop"
    /\ segEv.kind = "append"
    /\ LastRecord.start - LastSpoken(segIn, 2)[1].end > segment_max_duration

-----------------------------------------------------------------------------
(* The duration of the file, under TransSpec                               *)

\* the largest end of a list of records, 0 for an empty list
LargestEnd(records) == MaxOf({records[i].end : i \in DOMAIN records} \cup {0})

\* the ends of the segments of Whisper, as the service rounds them
RoundedEnds(wsegments) ==
    [i \in DOMAIN wsegments |-> [end |-> Round2(wsegments[i].end, 1)]]

\* no segment of the response went through the post-pass
Unsplit(h) == \A i \in DOMAIN h.base : Len(h.base[i].text) <= max_text_length

\* C19: file_duration is the largest end of the words of the answer of
\* ElevenLabs, or of the segments of Whisper, 0 for an empty answer, and no
\* segment that was not split ends after file_duration.
FileDurationIsLargestEnd ==
    \A j \in DOMAIN history :
        history[j].converted =>
            /\ history[j].provider = "elevenlabs" =>
                  Resp(history[j]).file_duration = LargestEnd(history[j].output.words)
            /\ history[j].provider = "whisper" =>
                  Resp(history[j]).file_duration
                      = LargestEnd(RoundedEnds(history[j].output.wsegments))
            /\ Unsplit(history[j]) =>
                  \A i \in DOMAIN Resp(history[j]).segments :
                      Resp(history[j]).segments[i].end <= Resp(history[j]).file_duration


-----------------------------------------------------------------------------
(* The /trim endpoint                                                      *)

\* TrimRequest: three strings
TrimRequest(file_path, start_time, end_time) ==
    [file_path |-> file_path, start_time |-> start_time, end_time |-> end_time]

\* os.path.exists of a path as the request gives it ("" names nothing)
OsPathExists(p) ==
    /\ p.abs \/ p.parts # << >>
    /\ PathExists(FsFiles, cache, GetAbsolutePath(p))

trim_not_found_detail == "Arquivo de áudio não encontrado"

trim_times_detail == "start_time e end_time são obrigatórios"

trim_failed_detail == "Erro ao cortar o áudio"

trim_missing_output_detail == "Erro: arquivo cortado não foi criado"

\* a finished trim request: the response and how often the trimmer ran
TrimEntry(r, code, detail, calls) ==
    [r |-> r, code |-> code, detail |-> detail, trimCalls |-> calls]

\* what AudioService.trim_audio hands back: a result whose file exists, a
\* result whose file does not exist, or None
TrimOutcomes == {"made", "vanished", "none"}

\* trim_audio, up to the await of audio_service.trim_audio
TrimReceive(r) ==
    /\ trimBudget > 0
    /\ trimReq = None
    /\ trimBudget' = trimBudget - 1
    /\ IF ~OsPathExists(r.file_path)
         THEN /\ trimLog' = Append(trimLog, TrimEntry(r, 404, trim_not_found_detail, 0))
              /\ UNCHANGED trimReq
         ELSE IF r.start_time = "" \/ r.end_time = ""
                THEN /\ trimLog' = Append(trimLog, TrimEntry(r, 400, trim_times_detail, 0))
                     /\ UNCHANGED trimReq
                ELSE /\ trimReq' = Some(r)
                     /\ UNCHANGED trimLog
    /\ UNCHANGED <<trimAllowed, reqVars, segVars, dlVars>>

TrimReceives == \E r \in trimAllowed : TrimReceive(r)

\* trim_audio, from the return of audio_service.trim_audio to the response
TrimReturn(outcome) ==
    /\ trimReq # None
    /\ trimReq' = None
    /\ trimLog' = Append(trimLog,
          CASE outcome = "none" -> TrimEntry(trimReq[1], 500, trim_failed_detail, 1)
            [] outcome = "vanished" -> TrimEntry(trimReq[1], 500, trim_missing_output_detail, 1)
            [] OTHER -> TrimEntry(trimReq[1], 200, "", 1))
    /\ UNCHANGED <<trimAllowed, trimBudget, reqVars, segVars, dlVars>>

TrimReturns == \E outcome \in TrimOutcomes : TrimReturn(outcome)

TrimNext == TrimReceives \/ TrimReturns

MaxTrims == 2

TrimTimes == {"", "10", "00:01:00"}

TrimFiles == {FileA, FileMissing, FileEmpty}

TrimRequests ==
    { TrimRequest(f, a, b) : f \in TrimFiles, a \in TrimTimes, b \in TrimTimes }

TrimInit ==
    /\ ReqOff
    /\ SegOff
    /\ DlOff
    /\ trimAllowed = TrimRequests
    /\ trimBudget = MaxTrims
    /\ trimReq = None
    /\ trimLog = << >>

TrimSpec == TrimInit /\ [][TrimNext]_vars

\* C20: a trim request with an empty start_time or end_time is answered
\* with 400 "start_time e end_time são obrigatórios" without the trimmer
\* being invoked, whether or not its file_path names an existing file.
EmptyTimesRejected ==
    \A j \in DOMAIN trimLog :
        (trimLog[j].r.start_time = "" \/ trimLog[j].r.end_time = "") =>
            /\ trimLog[j].code = 400
            /\ trimLog[j].detail = trim_times_detail
            /\ trimLog[j].trimCalls = 0


-----------------------------------------------------------------------------
(* The /download endpoint                                                  *)

\* DownloadRequest
DownloadRequest(video_id, use_cache) == [video_id |-> video_id, use_cache |-> use_cache]

\* DownloadService._load_cache
LoadCache(c, video_id) == IF video_id \in DOMAIN c THEN Some(c[video_id]) ELSE None

\* DownloadService._save_cache
SaveCache(c, video_id, info) ==
    [v \in DOMAIN c \cup {video_id} |-> IF v = video_id THEN info ELSE c[v]]

\* the info of a finished download; the document saved to info.json holds
\* the same keys
DownloadInfo(video_id, at) ==
    [file_path |-> video_id, video_id |-> video_id, cached_at |-> at]

\* download_audio of the endpoint, after the service has returned a result:
\* is_cached = "cached_at" in result
IsCached(result) == "cached_at" \in DOMAIN result

\* a finished download request: the response, where its result came from
\* ("cache", "download" or "") and how often the downloader ran
DlEntry(r, code, cached, served, downloads) ==
    [r |-> r, code |-> code, cached |-> cached, served |-> served,
     downloads |-> downloads]

\* the response for a result of the service
DlRespond(r, result, files, served, downloads) ==
    IF result.file_path \notin files
      THEN DlEntry(r, 500, FALSE, served, downloads)
      ELSE DlEntry(r, 200, IsCached(result), served, downloads)

\* the endpoint and DownloadService.download_audio up to the await of the
\* downloader
DlReceive(r) ==
    /\ dlBudget > 0
    /\ dlReq = None
    /\ dlBudget' = dlBudget - 1
    /\ LET cached_info == IF r.use_cache THEN LoadCache(dlCache, r.video_id) ELSE None
       IN  IF Strip(r.video_id) = << >>
             THEN /\ dlLog' = Append(dlLog, DlEntry(r, 400, FALSE, "", 0))
                  /\ UNCHANGED dlReq
             ELSE IF cached_info # None /\ cached_info[1].file_path \in dlFiles
                    THEN /\ dlLog' = Append(dlLog,
                               DlRespond(r, cached_info[1], dlFiles, "cache", 0))
                         /\ UNCHANGED dlReq
                    ELSE /\ dlReq' = Some(r)
                         /\ UNCHANGED dlLog
    /\ UNCHANGED <<dlAllowed, dlCache, dlFiles, reqVars, segVars, trimVars>>

DlReceives == \E r \in dlAllowed : DlReceive(r)

\* DownloadService.download_audio from the return of the downloader, and the
\* rest of the endpoint
DlReturn(ok) ==
    /\ dlReq # None
    /\ dlReq' = None
    /\ LET r == dlReq[1]
           info == DownloadInfo(r.video_id, Len(dlLog) + 1)
       IN  IF ok
             THEN /\ dlFiles' = dlFiles \cup {r.video_id}
                  /\ dlCache' = SaveCache(dlCache, r.video_id, info)
                  /\ dlLog' = Append(dlLog, DlRespond(r, info, dlFiles', "download", 1))
             ELSE /\ dlLog' = Append(dlLog, DlEntry(r, 404, FALSE, "", 1))
                  /\ UNCHANGED <<dlFiles, dlCache>>
    /\ UNCHANGED <<dlAllowed, dlBudget, reqVars, segVars, trimVars>>

DlReturns == \E ok \in BOOLEAN : DlReturn(ok)

\* the environment removes a downloaded file; its info.json stays
DlFileRemoved(v) ==
    /\ v \in dlFiles
    /\ dlReq = None
    /\ dlBudget > 0
    /\ dlFiles' = dlFiles \ {v}
    /\ UNCHANGED <<dlAllowed, dlBudget, dlCache, dlReq, dlLog, reqVars, segVars, trimVars>>

DlFilesRemoved == \E v \in dlFiles : DlFileRemoved(v)

DownloadNext == DlReceives \/ DlReturns \/ DlFilesRemoved

MaxDownloads == 3

VideoIds == {<< >>, <<" ">>, <<"v", "1">>, <<"v", "2">>}

DownloadRequests == { DownloadRequest(v, u) : v \in VideoIds, u \in BOOLEAN }

DownloadInit ==
    /\ ReqOff
    /\ SegOff
    /\ TrimOff
    /\ dlAllowed = DownloadRequests
    /\ dlBudget = MaxDownloads
    /\ dlCache = << >>
    /\ dlFiles = {}
    /\ dlReq = None
    /\ dlLog = << >>

DownloadSpec == DownloadInit /\ [][DownloadNext]_vars

\* C21: the cached flag of a successful download response is true exactly
\* when the result was served from the download cache; a fresh download
\* answers cached = FALSE, and a response served from the cache did not run
\* the downloader.
CachedFlagTellsOrigin ==
    \A j \in DOMAIN dlLog :
        dlLog[j].code = 200 =>
            /\ dlLog[j].cached = (dlLog[j].served = "cache")
            /\ dlLog[j].served = "cache" => dlLog[j].downloads = 0


-----------------------------------------------------------------------------
(* Concurrent requests with one cache key                                  *)

\* entries i and j of history belong to requests that ran at the same time
\* with the same cache key, found no cache file and got an answer of the
\* provider
BothMissed(i, j) ==
    /\ i < j
    /\ history[j].after < i
    /\ history[i].key # None
    /\ history[i].key = history[j].key
    /\ \A k \in {i, j} :
          /\ history[k].r.use_cache
          /\ history[k].found = "nothing"
          /\ history[k].converted

\* C22: two requests with the same cache key that run at the same time and
\* both miss both succeed with cached = FALSE after one provider call each
\* and one read of the cache that found no file; each of them writes the
\* file, which then holds exactly the document of its response, so that the
\* file holds the whole document that was written last.
ConcurrentMissesBothCompute ==
    \A i, j \in DOMAIN history :
        BothMissed(i, j) =>
            \A k \in {i, j} :
                /\ history[k].code = 200
                /\ ~Resp(history[k]).cached
                /\ history[k].providerCalls = 1
                /\ history[k].cacheReads = 1
                /\ history[k].w1 > history[k].w0
                /\ history[k].stored # None
                /\ Response(history[k].stored[1], history[k].provider, FALSE)
                       = Resp(history[k])

\* two such requests got different answers, and the file holds the later one
ConcurrentMissesSeen ==
    \E i, j \in DOMAIN history :
        /\ BothMissed(i, j)
        /\ history[i].r = history[j].r
        /\ Resp(history[i]) # Resp(history[j])
        /\ Len(history) = j
        /\ LoadTranscriptionCache(cache, history[j].key[1]) = history[j].stored


-----------------------------------------------------------------------------
(* The order of the translation batches, under TransSpec                   *)

\* the 0-based start indexes of the batches of a list of segments
BatchStarts(segments) == {k \in 0..(Len(segments) - 1) : k % batch_size = 0}

\* the batches of a request in _translate_segments_batch that were handed to
\* the executor: the loop is at index q.i and awaits that batch
Dispatched(q) == {k \in BatchStarts(q.segments) : k <= q.i}

\* the batches whose await has returned
Returned(q) == {k \in BatchStarts(q.segments) : k < q.i}

\* the slots whose request is in _translate_segments_batch
Translating == {s \in Slots : req[s].pc = "translate"}

-----------------------------------------------------------------------------
(* translated_to, under TransSpec                                          *)

\* C24: for either provider, translated_to is set on the response of a
\* computed transcription only if a translator was built for its segments,
\* and then it is the lower-cased target code of the request; when the
\* translation is a no-op it is unset.
TranslatedToIsNormalizedTarget ==
    \A j \in DOMAIN history :
        history[j].converted =>
            /\ Resp(history[j]).translated_to # None =>
                  /\ history[j].built
                  /\ Truthy(history[j].r.translate_to)
                  /\ Resp(history[j]).translated_to
                         = Some(Lower(history[j].r.translate_to[1]))
            /\ ~history[j].built => Resp(history[j]).translated_to = None


-----------------------------------------------------------------------------
(* The maximum duration of a segment, under DurSpec                        *)

\* the silence after which a second word ends exactly segment_max_duration
\* after the start of the first
ExactGap == segment_max_duration - 2 * WordLen

DurGaps == {0, ExactGap - WordLen, ExactGap, ExactGap + WordLen}

DurTexts == {<<"a">>, <<"b", ".">>}

\* the words of a stream around the maximum duration
MaxDurWords == 4

\* streams whose segments come close to the maximum duration
DurInit ==
    /\ ReqOff
    /\ TrimOff
    /\ DlOff
    /\ segPc = "loop"
    /\ segIn = << >>
    /\ segCur = EmptySegment
    /\ segOut = << >>
    /\ segEv = NoEvent
    /\ segPre = << >>
    /\ segCfg = [texts |-> DurTexts, gaps |-> DurGaps, max |-> MaxDurWords,
                 len |-> WordLen, vary |-> MaxDurWords, tail |-> << >>]

DurSpec == DurInit /\ [][SegNext]_vars

\* C25: after a word is appended, if the duration of the accumulator with it
\* is segment_max_duration or more, the segment is closed with that word as
\* its last word, also when the duration is exactly the maximum.
MaxDurationClosesSegment ==
    (segPc = "loop" /\ segEv.kind = "append" /\ segEv.dur >= segment_max_duration)
    => /\ Len(segOut) = segEv.before + 1
       /\ segCur = EmptySegment
       /\ segOut[Len(segOut)].end = LastRecord.end


-----------------------------------------------------------------------------
(* The characters of the pieces of the post-pass, under LongSpec           *)

\* the characters of a text that are not whitespace, in order
Unspaced(text) == SelectSeq(text, LAMBDA c : c \notin Whitespace)

\* the texts of the pieces of a split, one after the other
PieceTexts(pieces) == Flatten([k \in DOMAIN pieces |-> pieces[k].text])

\* C26: when the post-pass splits a segment on primary punctuation, the
\* pieces in order hold every character of the segment's text that is not
\* whitespace: each mark stays at the end of the piece before it.
PrimarySplitKeepsMarks ==
    segPc = "done" =>
        \A k \in DOMAIN segPre :
            LET parent == segPre[k]
                pieces == SplitOneSegment(parent)
            IN  (/\ Len(parent.text) > max_text_length
                 /\ Len(SplitByPunctuation(parent.text)) > 1)
                => Unspaced(PieceTexts(pieces)) = Unspaced(parent.text)


-----------------------------------------------------------------------------
(* Long segments without punctuation, under PlainSpec                      *)

\* a word without punctuation; three of them make a segment of more than
\* max_text_length characters
PlainLen == 55

PlainTexts == {Rep("x", PlainLen), Rep("x", max_text_length + 1), <<"o">>, <<"b">>}

\* the words of a stream without punctuation
MaxPlainWords == 4

\* streams of words without punctuation
PlainInit ==
    /\ ReqOff
    /\ TrimOff
    /\ DlOff
    /\ segPc = "loop"
    /\ segIn = << >>
    /\ segCur = EmptySegment
    /\ segOut = << >>
    /\ segEv = NoEvent
    /\ segPre = << >>
    /\ segCfg = [texts |-> PlainTexts, gaps |-> {0}, max |-> MaxPlainWords,
                 len |-> WordLen, vary |-> MaxPlainWords, tail |-> << >>]

PlainSpec == PlainInit /\ [][SegNext]_vars

\* avoid_split_after, the words of _smart_text_split
avoid_split_after ==
    { <<"a">>, <<"a", "n">>, <<"t", "h", "e">>, <<"t", "o">>, <<"i", "n">>,
      <<"o", "n">>, <<"o", "f">>, <<"f", "o", "r">>, <<"w", "i", "t", "h">>,
      <<"u", "m">>, <<"u", "m", "a">>, <<"o">>, <<"o", "s">>, <<"a", "s">>,
      <<"d", "e">>, <<"p", "a", "r", "a">>, <<"c", "o", "m">>, <<"e", "m">> }

\* the text has no primary and no secondary punctuation
Unpunctuated(text) ==
    \A i \in DOMAIN text : text[i] \notin PrimaryPunct \cup SecondaryPunct

\* the boundaries between words that lie within 3 words of the middle word
NearMiddle(words) ==
    {b \in 1..(Len(words) - 1) : b >= Len(words) \div 2 - 3 /\ b <= Len(words) \div 2 + 3}

\* C27: the post-pass splits a segment of more than max_text_length
\* characters without punctuation into exactly two pieces at a boundary
\* between words within 3 words of the middle, and not after a word of
\* avoid_split_after when another such boundary is there.
PlainSegmentSplitInTwo ==
    segPc = "done" =>
        \A k \in DOMAIN segPre :
            LET parent == segPre[k]
                pieces == SplitOneSegment(parent)
                words  == SplitWs(parent.text)
            IN  (Len(parent.text) > max_text_length /\ Unpunctuated(parent.text))
                => /\ Len(pieces) = 2
                   /\ \E b \in NearMiddle(words) :
                         /\ pieces[1].text = JoinSp(SubSeq(words, 1, b))
                         /\ pieces[2].text = JoinSp(SubSeq(words, b + 1, Len(words)))
                         /\ words[b] \in avoid_split_after
                               => \A c \in NearMiddle(words) : words[c] \in avoid_split_after


-----------------------------------------------------------------------------
(* The segments of the two providers, under TransSpec                      *)

\* C28: for either provider the segments of a computed transcription are
\* those the Segmenter makes of the words of the provider's answer, so that
\* both providers give the same segments for the same words.
BothProvidersSegment ==
    \A j \in DOMAIN history :
        history[j].converted =>
            [i \in DOMAIN history[j].base |-> Core(history[j].base[i])]
                = WordsToSegments(history[j].output.words)


-----------------------------------------------------------------------------
(* Records that are not spoken, under SegSpec                              *)

\* the records of a stream that are not spoken words
Unspoken(in) == SelectSeq(in, LAMBDA w : w.type # "word")

\* C29: the records that are not spoken words take no part: at every point
\* of the loop the accumulator and the segments are those of the spoken
\* words alone, and the segments returned are those the Segmenter returns
\* for the stream without the other records.
UnspokenRecordsIgnored ==
    /\ segPc = "loop" =>
          [cur |-> segCur, segments |-> segOut]
              = SegLoop([cur |-> EmptySegment, segments |-> << >>], Spoken(segIn))
    /\ segPc = "done" => segOut = WordsToSegments(Spoken(segIn))

\* a stream with a spacing record and an audio event between its spoken
\* words has given two segments or more
UnspokenRecordsSeen ==
    /\ segPc = "done"
    /\ Len(segOut) >= 2
    /\ \E i, j, k \in DOMAIN segIn :
          /\ i < j /\ j < k
          /\ segIn[i].type = "word" /\ segIn[k].type = "word"
          /\ {segIn[j].type, segIn[j + 1].type} = {"spacing", "audio_event"}


-----------------------------------------------------------------------------
(* The first pass as a partition of the spoken words, under ManySpec       *)

\* the length of a short word, in ms
ShortLen == 100

\* the records at the start of a stream that vary
VaryRecords == 4

\* the records of a long stream
MaxManyWords == 30

ManyTexts == {<<"a">>, <<"b", ".">>}

\* long streams of short words: more words than a segment takes
ManyInit ==
    /\ ReqOff
    /\ TrimOff
    /\ DlOff
    /\ segPc = "loop"
    /\ segIn = << >>
    /\ segCur = EmptySegment
    /\ segOut = << >>
    /\ segEv = NoEvent
    /\ segPre = << >>
    /\ segCfg = [texts |-> ManyTexts, gaps |-> {0}, max |-> MaxManyWords,
                 len |-> ShortLen, vary |-> VaryRecords, tail |-> <<"a">>]

ManySpec == ManyInit /\ [][SegNext]_vars

\* the number of words in the text of each segment (no word of the streams
\* holds whitespace)
WordCounts(segments) == [k \in DOMAIN segments |-> Len(SplitWs(segments[k].text))]

RECURSIVE SumTo(_, _)
\* counts[1] + ... + counts[k]
SumTo(counts, k) == IF k = 0 THEN 0 ELSE counts[k] + SumTo(counts, k - 1)

\* the spoken words of segment k, when the segments take the words in order
WordsOf(spoken, counts, k) ==
    SubSeq(spoken, SumTo(counts, k - 1) + 1, SumTo(counts, k))

\* C30: the segments of the first pass partition the spoken words: each
\* segment holds between 1 and segment_max_words words that follow one
\* another in the stream, from the start of its first word to the end of its
\* last; the segments together hold every spoken word once, in order; no
\* spoken word gives no segment and one spoken word gives one segment.
FirstPassPartitions ==
    segPc = "done" =>
        LET spoken == Spoken(segIn)
            counts == WordCounts(segPre)
        IN  /\ SumTo(counts, Len(counts)) = Len(spoken)
            /\ \A k \in DOMAIN segPre :
                  /\ counts[k] >= 1
                  /\ counts[k] <= segment_max_words
                  /\ segPre[k].text = JoinSp(Texts(WordsOf(spoken, counts, k)))
                  /\ segPre[k].start = WordsOf(spoken, counts, k)[1].start
                  /\ segPre[k].end = WordsOf(spoken, counts, k)[counts[k]].end
            /\ spoken = << >> => segPre = << >>
            /\ Len(spoken) = 1 => Len(segPre) = 1

\* a segment was closed with segment_max_words words, and the words after it
\* gave another segment
FullSegmentSeen ==
    /\ segPc = "done"
    /\ Len(segPre) >= 2
    /\ \E k \in DOMAIN segPre : WordCounts(segPre)[k] = segment_max_words

=============================================================================
